---- MODULE Spec2Model ----
(***************************************************************************)
(* Thomas attractor / Flower Index: a model of                             *)
(*   src/repo/thomas_flower_interface.py   (record loader, FI combiner,    *)
(*                                          enriched table, export)        *)
(*   src/old-representations/thomas-flower.py (integrate, project, fit,    *)
(*                                          exponent estimator)            *)
(*                                                                         *)
(* Numbers.  Python floats are binary64.  Here a float is an integer n     *)
(* standing for n / 2^FracBits that has at most MantBits significant       *)
(* bits; every arithmetic operation rounds its exact result to the nearest *)
(* such number, ties to even, as IEEE-754 does.  The format is binary64    *)
(* scaled down: it keeps absorption (1.0 + tiny = 1.0), underflow to 0 and *)
(* monotone rounding, which is what the claims about the code's            *)
(* arithmetic depend on.                                                   *)
(***************************************************************************)
EXTENDS Integers, Sequences, FiniteSets, TLC

VARIABLES
    fiArgs,     \* flower_index: arguments of the latest call  <<E, lambda>>
    fiRet,      \* flower_index: value the latest call returned
    fiPrev,     \* flower_index: <<E, lambda, returned>> of the call before it
    args,       \* main: the parsed command line [csv, csv_out, json_out]
    pc,         \* main: the statement it is at
    configs,    \* main: the list load_configs returned
    csvOut,     \* the enriched table enrich_csv_with_fi wrote (<<>> until then)
    jsonOut,    \* the document export_js_config wrote (<<>> until then)
    ret,        \* value returned by the latest method call on a loaded config
    rhoIn,      \* rhodonea evaluators: the latest arguments [k, m, phi, a, theta]
    rCfg,       \* ThomasFlowerConfig.rhodonea_r on rhoIn
    rFit,       \* the fitter's rhodonea on rhoIn
    lyIn,       \* lyapunov_estimate: its arguments [b, T, dt, eps]
    ly,         \* lyapunov_estimate: its locals [pc, i, s1, s2, d0, d_sum, n, ret]
    lyHist,     \* lyapunov_estimate: per step so far, [d, ref]: the separation
                \* computed in that step and the d0 it was compared with
    plIn,       \* script: its constants [N, M] and the shape of the solution
    plPc,       \* script: the statement it is at
    sol,        \* script: what solve_ivp returned [success, y]
    polar,      \* script: [r, theta] of the projected samples
    idx,        \* script: the subsample indices
    fit,        \* script: [theta, r, popt]: the data given to curve_fit, its result
    resid,      \* script: r - r_fit
    E_script    \* script: E_flower, the radial RMS error

fiVars == <<fiArgs, fiRet, fiPrev>>
batchVars == <<args, pc, configs, csvOut, jsonOut, ret>>
rhoVars == <<rhoIn, rCfg, rFit>>
lyVars == <<lyIn, ly, lyHist>>
plVars == <<plIn, plPc, sol, polar, idx, fit, resid, E_script>>
vars == <<fiArgs, fiRet, fiPrev, args, pc, configs, csvOut, jsonOut, ret,
          rhoIn, rCfg, rFit, lyIn, ly, lyHist,
          plIn, plPc, sol, polar, idx, fit, resid, E_script>>

----------------------------------------------------------------------------
(* Floating point *)

FracBits == 14
MantBits == 11

RECURSIVE Pow2(_)
Pow2(n) == IF n <= 0 THEN 1 ELSE 2 * Pow2(n - 1)

One == Pow2(FracBits)

RECURSIVE BitLen(_)
BitLen(n) == IF n <= 0 THEN 0 ELSE 1 + BitLen(n \div 2)

Abs(n) == IF n < 0 THEN -n ELSE n

\* num/den >= 0 rounded to the nearest number with MantBits significant bits,
\* ties to even.
Rnd(num, den) ==
    LET q == num \div den
        e == IF BitLen(q) > MantBits THEN BitLen(q) - MantBits ELSE 0
        s == den * Pow2(e)
        k == num \div s
        r == num - k * s
        up == (2 * r > s) \/ (2 * r = s /\ k % 2 = 1)
    IN  (IF up THEN k + 1 ELSE k) * Pow2(e)

RndS(num, den) == IF num < 0 THEN -Rnd(-num, den) ELSE Rnd(num, den)

\* number of trailing zero bits of a >= 0, at most lim (0 has lim)
RECURSIVE TZ(_, _)
TZ(a, lim) == IF lim = 0 \/ a % 2 # 0 THEN 0 ELSE 1 + TZ(a \div 2, lim - 1)

Min(a, b) == IF a < b THEN a ELSE b

FAdd(a, b) == RndS(a + b, 1)
FSub(a, b) == RndS(a - b, 1)

\* a * b: the exact product a*b / 2^FracBits, rounded.  The powers of two are
\* taken out of the operands first, so that the integer product stays small.
FMul(a, b) ==
    IF a = 0 \/ b = 0 THEN 0
    ELSE LET ta == TZ(Abs(a), 30)
             tb == TZ(Abs(b), 30)
             m == (Abs(a) \div Pow2(ta)) * (Abs(b) \div Pow2(tb))
             x == ta + tb - FracBits
             r == IF x >= 0 THEN Rnd(m, 1) * Pow2(x) ELSE Rnd(m, Pow2(-x))
         IN  IF (a < 0) = (b < 0) THEN r ELSE -r

\* a / b: the exact quotient a * 2^FracBits / b, rounded; b # 0
FDiv(a, b) ==
    LET t == TZ(Abs(b), FracBits)
        r == Rnd(Abs(a) * Pow2(FracBits - t), Abs(b) \div Pow2(t))
    IN  IF (a < 0) = (b < 0) THEN r ELSE -r

\* A tabulated library function: tab[j+1] is the function at j/4, scaled by
\* 2^bits; between the nodes it is interpolated linearly.  x >= 0.
Interp(tab, bits, x) ==
    LET q == One \div 4
        j == x \div q
        f == x % q
        lo == tab[j + 1]
        hi == tab[j + 2]
        v == IF hi >= lo THEN lo + ((hi - lo) * f) \div q
                         ELSE lo - ((lo - hi) * f) \div q
    IN  IF bits >= FracBits THEN RndS(v, Pow2(bits - FracBits))
                            ELSE RndS(v * Pow2(FracBits - bits), 1)

\* math.exp(-j/4) * 2^18, j = 0..52
ExpNegTab ==
    << 262144, 204158, 158998, 123828, 96437, 75106, 58492, 45554, 35477,
       27630, 21518, 16758, 13051, 10164, 7916, 6165, 4801, 3739, 2912, 2268,
       1766, 1376, 1071, 834, 650, 506, 394, 307, 239, 186, 145, 113, 88, 68,
       53, 42, 32, 25, 20, 15, 12, 9, 7, 6, 4, 3, 3, 2, 2, 1, 1, 1, 1 >>

\* math.cos(j/4) * 2^16, j = 0..27
CosTab ==
    << 65536, 63499, 57513, 47952, 35409, 20665, 4636, -11682, -27273, -41168,
       -52504, -60575, -64880, -65151, -61372, -53776, -42837, -29235, -13815,
       2464, 18590, 33560, 46443, 56439, 62926, 65500, 64002, 58524 >>

\* math.sin(j/4) * 2^16, j = 0..27
SinTab ==
    << 0, 16214, 31420, 44672, 55147, 62193, 65372, 64487, 59592, 50992, 39221,
       25013, 9248, -7091, -22989, -37458, -49598, -58654, -64063, -65490,
       -62844, -56291, -46238, -33311, -18312, -2174, 14098, 29494 >>

\* 2*pi in units of 2^-FracBits (2*pi*2^18 = 1647099), for range reduction
TwoPi == 1647099 \div Pow2(18 - FracBits)

Cos(x) == Interp(CosTab, 16, Abs(x) % TwoPi)
Sin(x) == IF x < 0 THEN -Interp(SinTab, 16, (-x) % TwoPi)
                   ELSE Interp(SinTab, 16, x % TwoPi)

\* math.exp(-x) for a float x >= 0; past the table e^-x is below 2^-18
ExpNeg(x) ==
    IF x \div (One \div 4) + 2 > Len(ExpNegTab) THEN 0
    ELSE Interp(ExpNegTab, 18, x)

\* math.log(1 + j/4) * 2^16, j = 0..5; LnTab[5] is log(2)
LnTab == << 0, 14624, 26573, 36675, 45426, 53145 >>

\* np.log(x) for a float x > 0: x = m * 2^e with 1 <= m < 2,
\* log(x) = e * log(2) + log(m)
Ln(x) ==
    LET e == BitLen(x) - 1 - FracBits
        m == IF e >= 0 THEN x \div Pow2(e) ELSE x * Pow2(-e)
        q == One \div 4
        j == (m - One) \div q
        f == (m - One) % q
        v == e * LnTab[5] + LnTab[j + 1]
               + ((LnTab[j + 2] - LnTab[j + 1]) * f) \div q
    IN  RndS(v, Pow2(16 - FracBits))

RECURSIVE ISqrt(_)
ISqrt(n) ==
    IF n < 2 THEN n
    ELSE LET s == 2 * ISqrt(n \div 4)
         IN  IF (s + 1) * (s + 1) <= n THEN s + 1 ELSE s

\* sqrt(n) of an integer n, rounded once: the root to one more bit than an
\* integer has, then a sticky bit for what is left
SqrtOf(n) ==
    LET s == ISqrt(4 * n)
    IN  Rnd(2 * s + (IF s * s = 4 * n THEN 0 ELSE 1), 4)

\* sqrt(n) * 2^t, rounded once: powers of 4 are moved under the root until the
\* root has more bits than the format keeps
RECURSIVE SqrtSc(_, _)
SqrtSc(n, t) ==
    IF n = 0 THEN 0
    ELSE IF t > 0 /\ n < Pow2(26) THEN SqrtSc(4 * n, t - 1)
    ELSE SqrtOf(n) * Pow2(t)

\* np.sqrt(a) for a float a >= 0: sqrt(a * 2^FracBits) in units of 2^-FracBits
FSqrt(a) ==
    IF a = 0 THEN 0
    ELSE LET ta == TZ(a, 30)
             m == a \div Pow2(ta)
             x == ta + FracBits
         IN  IF x % 2 = 0 THEN SqrtSc(m, x \div 2)
                          ELSE SqrtSc(2 * m, (x - 1) \div 2)

\* np.sqrt(u**2 + v**2 + w**2).  The squares and their sum are exact and the
\* root is rounded: binary64 reaches down to 2^-1074, so in the code the
\* square of a nonzero difference of two states is nonzero too.
Norm(u, v, w) ==
    IF u = 0 /\ v = 0 /\ w = 0 THEN 0
    ELSE LET t == Min(TZ(Abs(u), 30), Min(TZ(Abs(v), 30), TZ(Abs(w), 30)))
             p == u \div Pow2(t)
             q == v \div Pow2(t)
             r == w \div Pow2(t)
         IN  SqrtSc(p * p + q * q + r * r, t)

\* pi/4 * 2^18 = 205887; np.arctan2(y, x) on the eight compass directions
\* (|x| = |y|, or one of them 0): a multiple of pi/4
QuarterPi(k) == RndS(k * 205887, Pow2(18 - FracBits))

Arctan2(y, x) ==
    CASE x > 0 /\ y = 0 -> 0
      [] x > 0 /\ y > 0 -> QuarterPi(1)
      [] x = 0 /\ y > 0 -> QuarterPi(2)
      [] x < 0 /\ y > 0 -> QuarterPi(3)
      [] x < 0 /\ y = 0 -> QuarterPi(4)
      [] x < 0 /\ y < 0 -> QuarterPi(-3)
      [] x = 0 /\ y < 0 -> QuarterPi(-2)
      [] x > 0 /\ y < 0 -> QuarterPi(-1)
      [] OTHER -> 0

----------------------------------------------------------------------------
(* Python values: a float, float("nan"), or None *)

Num(n) == [t |-> "num", v |-> n]
NaN == [t |-> "nan", v |-> 0]
None == [t |-> "none", v |-> 0]

IsNum(x) == x.t = "num"
IsNaN(x) == x.t = "nan"

\* float arithmetic with NaN propagation
PAdd(x, y) == IF IsNum(x) /\ IsNum(y) THEN Num(FAdd(x.v, y.v)) ELSE NaN
PDiv(x, y) == IF IsNum(x) /\ IsNum(y) THEN Num(FDiv(x.v, y.v)) ELSE NaN
PMul(x, y) == IF IsNum(x) /\ IsNum(y) THEN Num(FMul(x.v, y.v)) ELSE NaN
PExpNeg(x) == IF IsNum(x) THEN Num(ExpNeg(x.v)) ELSE NaN
\* x < 0 (False when x is NaN)
PNeg(x) == IsNum(x) /\ x.v < 0

----------------------------------------------------------------------------
(* The parts of the state a specification does not use stay as they are here *)

NotWritten == [written |-> FALSE, doc |-> <<>>]
Written(d) == [written |-> TRUE, doc |-> d]

FiIdle == <<None, None, None>>

FIIdle ==
    /\ fiArgs = <<None, None>> /\ fiRet = NaN /\ fiPrev = FiIdle

BatchIdle ==
    /\ args = <<>> /\ pc = "idle" /\ configs = <<>>
    /\ csvOut = NotWritten /\ jsonOut = NotWritten /\ ret = None

RhoIdle == rhoIn = <<>> /\ rCfg = None /\ rFit = None

LyIdle == lyIn = <<>> /\ ly = <<>> /\ lyHist = <<>>

PlIdle ==
    /\ plIn = <<>> /\ plPc = "idle" /\ sol = <<>> /\ polar = <<>>
    /\ idx = <<>> /\ fit = <<>> /\ resid = <<>> /\ E_script = None

----------------------------------------------------------------------------
(* Flower Index Combiner *)

\* a variant that coerces invalid metrics to 0 instead of rejecting them
flower_index_coerce(E_flower, lambda_max) ==
    LET E == IF IsNum(E_flower) /\ E_flower.v >= 0 THEN E_flower ELSE Num(0)
        L == IF IsNum(lambda_max) /\ lambda_max.v >= 0 THEN lambda_max ELSE Num(0)
    IN  PMul(PDiv(Num(One), PAdd(Num(One), E)), PExpNeg(L))

\* a variant that forgets the reciprocal: (1 + E) * exp(-lambda)
flower_index_noreciprocal(E_flower, lambda_max) ==
    IF E_flower = None \/ lambda_max = None THEN NaN
    ELSE IF PNeg(E_flower) \/ PNeg(lambda_max) THEN NaN
    ELSE PMul(PAdd(Num(One), E_flower), PExpNeg(lambda_max))

flower_index(E_flower, lambda_max) ==
    IF E_flower = None \/ lambda_max = None THEN NaN
    ELSE IF PNeg(E_flower) \/ PNeg(lambda_max) THEN NaN
    ELSE PMul(PDiv(Num(One), PAdd(Num(One), E_flower)), PExpNeg(lambda_max))

----------------------------------------------------------------------------
(* Configuration records: the input table, ThomasFlowerConfig, load_configs *)

\* A table is a sequence of rows; a row maps each column the file has to a
\* cell.  pandas.read_csv makes a cell a number, NaN (empty) or text.
\* The model carries id, b, steps, the four rhodonea parameters and the three
\* metrics.  The float columns dt, seed_x, seed_y, seed_z, rotation_angle_rad
\* are read exactly as b is, transient_steps as steps, and description,
\* projection_plane, rotation_axis, notes as id.
\* Text is Str(n), n naming the text: n >= 1 an id, 0 a word that is no number.
Str(n) == [t |-> "str", v |-> n]

InputCols == {"id", "b", "steps", "rhodonea_k", "rhodonea_m", "rhodonea_phi",
              "rhodonea_a", "E_flower", "lambda_max", "FI_reported"}

\* row.get(col): the cell, or None when the file has no such column
RowGet(row, col) == IF col \in DOMAIN row THEN row[col] ELSE None

\* str(x): text stays as it is; str(None) = "None" (-1), str(nan) = "nan" (-2),
\* a number becomes its decimal text (-3)
ToStr(x) ==
    IF x.t = "str" THEN x
    ELSE IF x.t = "none" THEN Str(-1)
    ELSE IF x.t = "nan" THEN Str(-2)
    ELSE Str(-3)

\* float(x): the value, or an exception (ok = FALSE) on text and on None
ToFloat(x) ==
    IF x.t = "num" \/ x.t = "nan" THEN [ok |-> TRUE, val |-> x]
    ELSE [ok |-> FALSE, val |-> NaN]

\* int(x): truncation, or an exception on NaN, on text and on None
ToInt(x) ==
    IF x.t = "num"
    THEN [ok |-> TRUE,
          val |-> IF x.v < 0 THEN -((-x.v) \div One) ELSE x.v \div One]
    ELSE [ok |-> FALSE, val |-> 0]

\* pd.isna(x): NaN and None are missing
IsNA(x) == x.t = "nan" \/ x.t = "none"

\* float(x) if not pd.isna(x) else None
ToOptFloat(x) == IF IsNA(x) THEN [ok |-> TRUE, val |-> None] ELSE ToFloat(x)

\* ThomasFlowerConfig(...) of one row: the record, or the exception a
\* conversion raised
MakeConfig(row) ==
    LET b == ToFloat(RowGet(row, "b"))
        steps == ToInt(RowGet(row, "steps"))
        k == ToFloat(RowGet(row, "rhodonea_k"))
        m == ToFloat(RowGet(row, "rhodonea_m"))
        phi == ToFloat(RowGet(row, "rhodonea_phi"))
        a == ToFloat(RowGet(row, "rhodonea_a"))
        E == ToOptFloat(RowGet(row, "E_flower"))
        L == ToOptFloat(RowGet(row, "lambda_max"))
        F == ToOptFloat(RowGet(row, "FI_reported"))
    IN  [ok |-> b.ok /\ steps.ok /\ k.ok /\ m.ok /\ phi.ok /\ a.ok
                  /\ E.ok /\ L.ok /\ F.ok,
         cfg |-> [id |-> ToStr(RowGet(row, "id")), b |-> b.val, steps |-> steps.val,
                  rhodonea_k |-> k.val, rhodonea_m |-> m.val,
                  rhodonea_phi |-> phi.val, rhodonea_a |-> a.val,
                  E_flower |-> E.val, lambda_max |-> L.val,
                  FI_reported |-> F.val]]

\* load_configs: the configs of all rows, or the first exception, which
\* nothing catches
RECURSIVE load_configs(_)
load_configs(rows) ==
    IF rows = <<>> THEN [ok |-> TRUE, configs |-> <<>>]
    ELSE LET c == MakeConfig(Head(rows))
             rest == load_configs(Tail(rows))
         IN  IF c.ok /\ rest.ok
             THEN [ok |-> TRUE, configs |-> <<c.cfg>> \o rest.configs]
             ELSE [ok |-> FALSE, configs |-> <<>>]

----------------------------------------------------------------------------
(* ThomasFlowerConfig methods *)

compute_fi(cfg) == flower_index(cfg.E_flower, cfg.lambda_max)

\* a * cos(k*m*theta + phi)
rhodonea_r(cfg, theta) ==
    PMul(cfg.rhodonea_a,
         IF IsNum(cfg.rhodonea_k) /\ IsNum(cfg.rhodonea_m) /\ IsNum(cfg.rhodonea_phi)
         THEN Num(Cos(FAdd(FMul(FMul(cfg.rhodonea_k.v, cfg.rhodonea_m.v), theta),
                           cfg.rhodonea_phi.v)))
         ELSE NaN)

\* the formula string of the export names the model with k*m
FormulaString == "r(theta) = a * cos(k*m*theta + phi)"

\* a variant that exports the stored FI_reported as FI_computed
to_js_config_stored(cfg) ==
    [id |-> cfg.id,
     model |-> [b |-> cfg.b, steps |-> cfg.steps],
     rhodonea |-> [k |-> cfg.rhodonea_k, m |-> cfg.rhodonea_m,
                   phi |-> cfg.rhodonea_phi, a |-> cfg.rhodonea_a,
                   formula |-> FormulaString],
     metrics |-> [E_flower |-> cfg.E_flower, lambda_max |-> cfg.lambda_max,
                  FI_computed |-> cfg.FI_reported,
                  FI_reported |-> cfg.FI_reported]]

to_js_config(cfg) ==
    [id |-> cfg.id,
     model |-> [b |-> cfg.b, steps |-> cfg.steps],
     rhodonea |-> [k |-> cfg.rhodonea_k, m |-> cfg.rhodonea_m,
                   phi |-> cfg.rhodonea_phi, a |-> cfg.rhodonea_a,
                   formula |-> FormulaString],
     metrics |-> [E_flower |-> cfg.E_flower, lambda_max |-> cfg.lambda_max,
                  FI_computed |-> compute_fi(cfg),
                  FI_reported |-> cfg.FI_reported]]

export_js_config(cfgs) == [i \in 1..Len(cfgs) |-> to_js_config(cfgs[i])]

----------------------------------------------------------------------------
(* enrich_csv_with_fi *)

\* row[col]: KeyError when the file has no such column; float() of it
RowFloat(row, col) ==
    IF col \in DOMAIN row THEN ToFloat(row[col]) ELSE [ok |-> FALSE, val |-> NaN]

\* _fi(row)
RowFI(row) ==
    LET E == RowFloat(row, "E_flower")
        L == RowFloat(row, "lambda_max")
    IN  IF E.ok /\ L.ok THEN flower_index(E.val, L.val) ELSE NaN

\* abs(r - c) on floats
PAbsDiff(x, y) ==
    IF IsNum(x) /\ IsNum(y) THEN Num(Abs(FSub(x.v, y.v))) ELSE NaN

\* a variant that fills a missing operand with 0 (fillna(0))
RowDelta_fillna(row) ==
    LET r == RowFloat(row, "FI_reported")
        c == RowFloat(row, "FI_computed")
        z(x) == IF x.ok /\ IsNum(x.val) THEN x.val ELSE Num(0)
    IN  PAbsDiff(z(r), z(c))

\* _delta(row), on a row that has FI_computed
RowDelta(row) ==
    LET r == RowFloat(row, "FI_reported")
        c == RowFloat(row, "FI_computed")
    IN  IF r.ok /\ c.ok THEN PAbsDiff(r.val, c.val) ELSE NaN

\* df[col] = value, for one row
WithCol(row, col, val) ==
    [c \in DOMAIN row \cup {col} |-> IF c = col THEN val ELSE row[c]]

enrich_csv_with_fi(rows) ==
    [i \in 1..Len(rows) |->
        LET r1 == WithCol(rows[i], "FI_computed", RowFI(rows[i]))
        IN  WithCol(r1, "FI_delta", RowDelta(r1))]

----------------------------------------------------------------------------
(* main: load, then the enriched table, then the export *)

MaxRows == 2

ColumnSets == { InputCols, InputCols \ {"steps"}, InputCols \ {"FI_reported"} }

RowOf(cols, i, steps, E, L, F) ==
    [c \in cols |->
        CASE c = "id" -> Str(i)
          [] c = "b" -> Num(One \div 4)
          [] c = "steps" -> steps
          [] c = "rhodonea_k" -> Num(2 * One)
          [] c = "rhodonea_m" -> Num(5 * One)
          [] c = "rhodonea_phi" -> Num(0)
          [] c = "rhodonea_a" -> Num(One)
          [] c = "E_flower" -> E
          [] c = "lambda_max" -> L
          [] OTHER -> F]

\* the metrics <<E_flower, lambda_max, FI_reported>> a row may carry: all
\* present, one of them empty, a negative error, all empty
Metrics ==
    { <<Num(One), Num(0), Num(One \div 4)>>, <<Num(One), Num(0), NaN>>,
      <<Num(-One), Num(0), Num(One \div 4)>>, <<NaN, Num(0), Num(One \div 4)>>,
      <<Num(One), NaN, Num(One \div 4)>>, <<NaN, NaN, NaN>> }

\* the rows a file may have at line i: steps a number, empty, or a word
RowsAt(cols, i) ==
    { RowOf(cols, i, steps, p[1], p[2], p[3]) :
        steps \in {Num(3 * One), NaN, Str(0)}, p \in Metrics }

RECURSIVE Tables(_, _)
Tables(cols, n) ==
    IF n = 0 THEN {<<>>}
    ELSE { Append(t, r) : t \in Tables(cols, n - 1), r \in RowsAt(cols, n) }

InputTables == UNION { Tables(cols, n) : cols \in ColumnSets, n \in 0..MaxRows }

Thetas == {0, One}

InitMain ==
    /\ args \in [csv : InputTables, csv_out : BOOLEAN, json_out : BOOLEAN]
    /\ pc = "load"
    /\ configs = <<>>
    /\ csvOut = NotWritten
    /\ jsonOut = NotWritten
    /\ ret = None
    /\ FIIdle /\ RhoIdle /\ LyIdle /\ PlIdle

\* configs = load_configs(args.csv)
MainLoad ==
    /\ pc = "load"
    /\ LET r == load_configs(args.csv)
       IN  IF r.ok THEN configs' = r.configs /\ pc' = "enrich"
                   ELSE configs' = configs /\ pc' = "raised"
    /\ UNCHANGED <<args, csvOut, jsonOut, ret, fiVars, rhoVars, lyVars, plVars>>

\* if args.csv_out: enrich_csv_with_fi(args.csv, args.csv_out)
MainEnrich ==
    /\ pc = "enrich"
    /\ csvOut' = IF args.csv_out THEN Written(enrich_csv_with_fi(args.csv))
                                 ELSE csvOut
    /\ pc' = "export"
    /\ UNCHANGED <<args, configs, jsonOut, ret, fiVars, rhoVars, lyVars, plVars>>

\* if args.json_out: export_js_config(configs, args.json_out)
MainExport ==
    /\ pc = "export"
    /\ jsonOut' = IF args.json_out THEN Written(export_js_config(configs))
                                   ELSE jsonOut
    /\ pc' = "done"
    /\ UNCHANGED <<args, configs, csvOut, ret, fiVars, rhoVars, lyVars, plVars>>

Loaded == pc \in {"enrich", "export", "done"}

\* a variant of compute_fi that caches its result in the record
CallComputeFi_caching(i) ==
    /\ Loaded
    /\ ret' = [op |-> "compute_fi", i |-> i, val |-> compute_fi(configs[i])]
    /\ configs' = [configs EXCEPT ![i].FI_reported = compute_fi(configs[i])]
    /\ UNCHANGED <<args, pc, csvOut, jsonOut, fiVars, rhoVars, lyVars, plVars>>

\* a caller invokes configs[i].compute_fi()
CallComputeFi(i) ==
    /\ Loaded
    /\ ret' = [op |-> "compute_fi", i |-> i, val |-> compute_fi(configs[i])]
    /\ UNCHANGED <<args, pc, configs, csvOut, jsonOut, fiVars, rhoVars, lyVars, plVars>>

\* a caller invokes configs[i].rhodonea_r(theta)
CallRhodoneaR(i, theta) ==
    /\ Loaded
    /\ ret' = [op |-> "rhodonea_r", i |-> i,
               val |-> rhodonea_r(configs[i], theta)]
    /\ UNCHANGED <<args, pc, configs, csvOut, jsonOut, fiVars, rhoVars, lyVars, plVars>>

\* a caller invokes configs[i].to_js_config()
CallToJsConfig(i) ==
    /\ Loaded
    /\ ret' = [op |-> "to_js_config", i |-> i, val |-> to_js_config(configs[i])]
    /\ UNCHANGED <<args, pc, configs, csvOut, jsonOut, fiVars, rhoVars, lyVars, plVars>>

NextMain ==
    \/ MainLoad
    \/ MainEnrich
    \/ MainExport
    \/ \E i \in 1..Len(configs) : CallComputeFi(i)
    \/ \E i \in 1..Len(configs), theta \in Thetas : CallRhodoneaR(i, theta)
    \/ \E i \in 1..Len(configs) : CallToJsConfig(i)

SpecMain == InitMain /\ [][NextMain]_vars

----------------------------------------------------------------------------
(* thomas-flower.py: the rhodonea model of the fitter *)

\* a * np.cos((k/m)*theta + phi), on floats
rhodonea(theta, k, m, phi, a) ==
    FMul(a, Cos(FAdd(FMul(FDiv(k, m), theta), phi)))

RhoK == {One, 2 * One, 3 * One}
RhoM == {One, 2 * One, 5 * One}
RhoPhi == {0, One}
RhoA == {One, 2 * One}
RhoTheta == {0, One \div 2, One, 2 * One, 3 * One}

\* the record of a configuration that has these rhodonea parameters
RhoConfig(k, m, phi, a) ==
    [rhodonea_k |-> Num(k), rhodonea_m |-> Num(m),
     rhodonea_phi |-> Num(phi), rhodonea_a |-> Num(a)]

InitRhodonea ==
    /\ RhoIdle
    /\ FIIdle /\ BatchIdle /\ LyIdle /\ PlIdle

\* both evaluators of the program on the same parameters and angle
EvalRhodonea(k, m, phi, a, theta) ==
    /\ rhoIn' = [k |-> k, m |-> m, phi |-> phi, a |-> a, theta |-> theta]
    /\ rCfg' = rhodonea_r(RhoConfig(k, m, phi, a), theta)
    /\ rFit' = Num(rhodonea(theta, k, m, phi, a))
    /\ UNCHANGED <<fiVars, batchVars, lyVars, plVars>>

NextRhodonea ==
    \E k \in RhoK, m \in RhoM, phi \in RhoPhi, a \in RhoA, theta \in RhoTheta :
        EvalRhodonea(k, m, phi, a, theta)

SpecRhodonea == InitRhodonea /\ [][NextRhodonea]_vars

----------------------------------------------------------------------------
(* thomas-flower.py: lyapunov_estimate *)

\* the right-hand side of the Thomas system, as the loop body writes it
Deriv(s, b) ==
    << FSub(Sin(s[2]), FMul(b, s[1])),
       FSub(Sin(s[3]), FMul(b, s[2])),
       FSub(Sin(s[1]), FMul(b, s[3])) >>

\* x + dx*dt for the three coordinates
Euler(s, ds, dt) ==
    << FAdd(s[1], FMul(ds[1], dt)),
       FAdd(s[2], FMul(ds[2], dt)),
       FAdd(s[3], FMul(ds[3], dt)) >>

\* np.sqrt((x2-x1)**2 + (y2-y1)**2 + (z2-z1)**2)
Separation(s1, s2) ==
    Norm(FSub(s2[1], s1[1]), FSub(s2[2], s1[2]), FSub(s2[3], s1[3]))

\* int(T/dt)
NSteps(T, dt) == FDiv(T, dt) \div One

MaxT == 2

LyInputs ==
    [b : {0, One \div 4, One}, T : {k * One : k \in 0..MaxT},
     dt : {One \div 4, One \div 2}, eps : {0, One \div 1024, One \div 16}]

\* the statements before the loop
InitLyapunov ==
    /\ lyIn \in LyInputs
    /\ ly = [pc |-> "loop", i |-> 0,
             s1 |-> <<One, One, One>>,
             s2 |-> <<FAdd(One, lyIn.eps), One, One>>,
             d0 |-> Separation(<<One, One, One>>,
                               <<FAdd(One, lyIn.eps), One, One>>),
             d_sum |-> 0, n |-> 0, ret |-> None]
    /\ lyHist = <<>>
    /\ FIIdle /\ BatchIdle /\ RhoIdle /\ PlIdle

\* a variant of the loop body that counts every step, renormalized or not
LyapunovStep_countall ==
    /\ ly.pc = "loop"
    /\ ly.i < NSteps(lyIn.T, lyIn.dt)
    /\ LET s1 == Euler(ly.s1, Deriv(ly.s1, lyIn.b), lyIn.dt)
           s2 == Euler(ly.s2, Deriv(ly.s2, lyIn.b), lyIn.dt)
           d == Separation(s1, s2)
       IN  /\ ly' = IF d > 0
                    THEN [ly EXCEPT !.i = @ + 1, !.s1 = s1, !.s2 = s2,
                                    !.d_sum = FAdd(@, Ln(FDiv(d, ly.d0))),
                                    !.d0 = d, !.n = @ + 1]
                    ELSE [ly EXCEPT !.i = @ + 1, !.s1 = s1, !.s2 = s2,
                                    !.n = @ + 1]
           /\ lyHist' = Append(lyHist, [d |-> d, ref |-> ly.d0])
    /\ UNCHANGED <<lyIn, fiVars, batchVars, rhoVars, plVars>>

\* one iteration of the loop
LyapunovStep ==
    /\ ly.pc = "loop"
    /\ ly.i < NSteps(lyIn.T, lyIn.dt)
    /\ LET s1 == Euler(ly.s1, Deriv(ly.s1, lyIn.b), lyIn.dt)
           s2 == Euler(ly.s2, Deriv(ly.s2, lyIn.b), lyIn.dt)
           d == Separation(s1, s2)
       IN  /\ ly' = IF d > 0
                    THEN [ly EXCEPT !.i = @ + 1, !.s1 = s1, !.s2 = s2,
                                    !.d_sum = FAdd(@, Ln(FDiv(d, ly.d0))),
                                    !.d0 = d, !.n = @ + 1]
                    ELSE [ly EXCEPT !.i = @ + 1, !.s1 = s1, !.s2 = s2]
           /\ lyHist' = Append(lyHist, [d |-> d, ref |-> ly.d0])
    /\ UNCHANGED <<lyIn, fiVars, batchVars, rhoVars, plVars>>

\* return d_sum/(n*dt) if n>0 else 0
LyapunovReturn ==
    /\ ly.pc = "loop"
    /\ ly.i = NSteps(lyIn.T, lyIn.dt)
    /\ ly' = [ly EXCEPT !.pc = "done",
                        !.ret = IF ly.n > 0
                                THEN Num(FDiv(ly.d_sum, FMul(ly.n * One, lyIn.dt)))
                                ELSE Num(0)]
    /\ UNCHANGED <<lyIn, lyHist, fiVars, batchVars, rhoVars, plVars>>

NextLyapunov == LyapunovStep \/ LyapunovReturn

SpecLyapunov == InitLyapunov /\ [][NextLyapunov]_vars

----------------------------------------------------------------------------
(* thomas-flower.py: integrate, project, subsample, fit, error *)

\* The script asks solve_ivp for 100000 samples and fits on 8000 of them; the
\* model draws the two sizes from 1..MaxN and 2..MaxM.
MaxN == 4
MaxM == 23

\* State vectors a solution passes through after the initial state (1, 1, 1);
\* the solution solve_ivp returns is the initial state followed by these in
\* turn, starting at the shape's offset.
Pts == << <<0, One, One>>, <<-One, One, One>>, <<-One, 0, One>>,
          <<-One, -One, One>>, <<0, -One, One>>, <<One, -One, One>>,
          <<One, 0, One>>, <<0, 0, One>> >>

Traj(n, off) ==
    [i \in 1..n |-> IF i = 1 THEN <<One, One, One>>
                    ELSE Pts[((i + off) % Len(Pts)) + 1]]

\* a variant of linspace that leaves the stop value out (endpoint=False)
linspace_open(start, stop, num) ==
    IF num = 0 THEN <<>>
    ELSE LET step == FDiv(FSub(stop, start), num * One)
         IN  [i \in 1..num |-> FAdd(FMul((i - 1) * One, step), start)]

\* np.linspace(start, stop, num): step = (stop - start)/(num - 1),
\* y[i] = i*step + start, and the last element is set to stop
linspace(start, stop, num) ==
    IF num = 0 THEN <<>>
    ELSE IF num = 1 THEN <<start>>
    ELSE LET step == FDiv(FSub(stop, start), (num - 1) * One)
         IN  [i \in 1..num |->
                 IF i = num THEN stop
                 ELSE FAdd(FMul((i - 1) * One, step), start)]

\* .astype(int): truncation toward zero
AsInt(ys) ==
    [i \in 1..Len(ys) |->
        IF ys[i] < 0 THEN -((-ys[i]) \div One) ELSE ys[i] \div One]

\* a[idx] for a list of indices; IndexError (ok = FALSE) when one is out of
\* range; a negative index counts from the end
Take(a, ix) ==
    LET n == Len(a)
        pos(j) == IF j < 0 THEN j + n ELSE j
    IN  IF \A i \in 1..Len(ix) : pos(ix[i]) >= 0 /\ pos(ix[i]) < n
        THEN [ok |-> TRUE, val |-> [i \in 1..Len(ix) |-> a[pos(ix[i]) + 1]]]
        ELSE [ok |-> FALSE, val |-> <<>>]

RECURSIVE FSum(_)
FSum(xs) == IF xs = <<>> THEN 0 ELSE FAdd(FSum(SubSeq(xs, 1, Len(xs) - 1)), xs[Len(xs)])

\* np.sqrt(np.mean(d**2)); the mean of an empty array is NaN
RMS(d) ==
    IF d = <<>> THEN NaN
    ELSE Num(FSqrt(FDiv(FSum([i \in 1..Len(d) |-> FMul(d[i], d[i])]),
                        Len(d) * One)))

\* r - rhodonea(theta, *popt), over every sample
ErrorOver(th, r, ix, popt) ==
    [i \in 1..Len(th) |->
        FSub(r[i], rhodonea(th[i], popt[1], popt[2], popt[3], popt[4]))]

\* parameters curve_fit may return: the initial guess p0 = [2, 5, 0, 1], or
\* another set
Popts == { <<2 * One, 5 * One, 0, One>>, <<One, One, 0, One>> }

InitScript ==
    /\ plIn \in [N : 1..MaxN, M : 2..MaxM, off : 0..(Len(Pts) - 1)]
    /\ plPc = "solve"
    /\ sol = <<>> /\ polar = <<>> /\ idx = <<>> /\ fit = <<>>
    /\ resid = <<>> /\ E_script = None
    /\ FIIdle /\ BatchIdle /\ RhoIdle /\ LyIdle

\* sol = solve_ivp(...): the solver met its tolerance on the whole span
SolveOk ==
    /\ plPc = "solve"
    /\ sol' = [success |-> TRUE, y |-> Traj(plIn.N, plIn.off)]
    /\ plPc' = "project"
    /\ UNCHANGED <<plIn, polar, idx, fit, resid, E_script,
                   fiVars, batchVars, rhoVars, lyVars>>

\* sol = solve_ivp(...): the step size fell below the spacing of floats; the
\* solver returns normally, with success False and the samples it got to
SolveFail(k) ==
    /\ plPc = "solve"
    /\ sol' = [success |-> FALSE, y |-> Traj(k, plIn.off)]
    /\ plPc' = "project"
    /\ UNCHANGED <<plIn, polar, idx, fit, resid, E_script,
                   fiVars, batchVars, rhoVars, lyVars>>

\* x, y, z = sol.y; r = np.sqrt(x**2 + y**2); theta = np.arctan2(y, x)
Project ==
    /\ plPc = "project"
    /\ polar' = [r |-> [i \in 1..Len(sol.y) |-> Norm(sol.y[i][1], sol.y[i][2], 0)],
                 theta |-> [i \in 1..Len(sol.y) |->
                               Arctan2(sol.y[i][2], sol.y[i][1])]]
    /\ plPc' = "subsample"
    /\ UNCHANGED <<plIn, sol, idx, fit, resid, E_script,
                   fiVars, batchVars, rhoVars, lyVars>>

\* idx = np.linspace(0, len(theta)-1, 8000).astype(int)
Subsample ==
    /\ plPc = "subsample"
    /\ idx' = AsInt(linspace(0, (Len(polar.theta) - 1) * One, plIn.M))
    /\ plPc' = "fit"
    /\ UNCHANGED <<plIn, sol, polar, fit, resid, E_script,
                   fiVars, batchVars, rhoVars, lyVars>>

\* popt, _ = curve_fit(rhodonea, theta[idx], r[idx], p0=[2, 5, 0, 1])
FitOk(popt) ==
    /\ plPc = "fit"
    /\ Take(polar.theta, idx).ok
    /\ fit' = [theta |-> Take(polar.theta, idx).val,
               r |-> Take(polar.r, idx).val, popt |-> popt]
    /\ plPc' = "error"
    /\ UNCHANGED <<plIn, sol, polar, idx, resid, E_script,
                   fiVars, batchVars, rhoVars, lyVars>>

\* theta[idx] raises IndexError on an empty trajectory, or curve_fit raises
\* RuntimeError when the optimizer does not converge
FitRaise ==
    /\ plPc = "fit"
    /\ plPc' = "raised"
    /\ UNCHANGED <<plIn, sol, polar, idx, fit, resid, E_script,
                   fiVars, batchVars, rhoVars, lyVars>>

\* r_fit = rhodonea(theta, *popt); E_flower = np.sqrt(np.mean((r - r_fit)**2))
Error ==
    /\ plPc = "error"
    /\ resid' = ErrorOver(polar.theta, polar.r, idx, fit.popt)
    /\ E_script' = RMS(ErrorOver(polar.theta, polar.r, idx, fit.popt))
    /\ plPc' = "done"
    /\ UNCHANGED <<plIn, sol, polar, idx, fit, fiVars, batchVars, rhoVars, lyVars>>

NextScript ==
    \/ SolveOk
    \/ \E k \in 0..(plIn.N - 1) : SolveFail(k)
    \/ Project
    \/ Subsample
    \/ \E popt \in Popts : FitOk(popt)
    \/ FitRaise
    \/ Error

SpecScript == InitScript /\ [][NextScript]_vars

----------------------------------------------------------------------------
(* Specification of the combiner alone *)

\* arguments the combiner is called with, in units of 2^-FracBits
MaxLamQ == 44
InE == { None, NaN, Num(-1), Num(0), Num(1), Num(One \div 2), Num(One),
         Num(2 * One) }
InL == { None, NaN, Num(-1), Num(0), Num(1) }
         \cup { Num(j * (One \div 4)) : j \in {1, 4, 32, 40, MaxLamQ} }

InitFI ==
    /\ FIIdle
    /\ BatchIdle /\ RhoIdle /\ LyIdle /\ PlIdle

CallFlowerIndex(E, L) ==
    /\ fiPrev' = <<fiArgs[1], fiArgs[2], fiRet>>
    /\ fiArgs' = <<E, L>>
    /\ fiRet' = flower_index(E, L)
    /\ UNCHANGED <<batchVars, rhoVars, lyVars, plVars>>

NextFI == \E E \in InE, L \in InL : CallFlowerIndex(E, L)

SpecFI == InitFI /\ [][NextFI]_vars

----------------------------------------------------------------------------
(* Properties *)

Valid(x) == IsNum(x) /\ x.v >= 0
Invalid(x) == x = None \/ PNeg(x)

\* C1: flower_index returns NaN whenever E or lambda is None or negative, and
\* an ordinary number whenever both are present and non-negative.
C1_InvalidMetricIsNaN ==
    /\ (Invalid(fiArgs[1]) \/ Invalid(fiArgs[2])) => IsNaN(fiRet)
    /\ (Valid(fiArgs[1]) /\ Valid(fiArgs[2])) => IsNum(fiRet)

\* a call with a negative E and a valid lambda returned NaN, after a call with
\* valid arguments that returned a number
C1_Witness ==
    /\ PNeg(fiArgs[1]) /\ Valid(fiArgs[2]) /\ IsNaN(fiRet)
    /\ Valid(fiPrev[1]) /\ Valid(fiPrev[2]) /\ IsNum(fiPrev[3])

BothValid == /\ Valid(fiArgs[1]) /\ Valid(fiArgs[2])
             /\ Valid(fiPrev[1]) /\ Valid(fiPrev[2])

\* C9 as stated: for E, lambda >= 0 flower_index is strictly decreasing in E
\* and in lambda, flower_index(0, 0) = 1.0, and every valid result is in (0, 1].
C9_StrictlyDecreasing ==
    /\ (Valid(fiArgs[1]) /\ Valid(fiArgs[2])) =>
            /\ fiRet.v > 0 /\ fiRet.v <= One
            /\ (fiArgs[1].v = 0 /\ fiArgs[2].v = 0) => fiRet.v = One
    /\ (BothValid /\ fiPrev[2] = fiArgs[2] /\ fiPrev[1].v < fiArgs[1].v)
            => fiRet.v < fiPrev[3].v
    /\ (BothValid /\ fiPrev[1] = fiArgs[1] /\ fiPrev[2].v < fiArgs[2].v)
            => fiRet.v < fiPrev[3].v

\* C9 amended: for E, lambda >= 0 flower_index is non-increasing in E and in
\* lambda (a larger E or lambda never gives a larger result),
\* flower_index(0, 0) = 1.0 exactly, and every valid result is in [0, 1].
C9_NonIncreasing ==
    /\ (Valid(fiArgs[1]) /\ Valid(fiArgs[2])) =>
            /\ fiRet.v >= 0 /\ fiRet.v <= One
            /\ (fiArgs[1].v = 0 /\ fiArgs[2].v = 0) => fiRet.v = One
    /\ (BothValid /\ fiPrev[2] = fiArgs[2] /\ fiPrev[1].v < fiArgs[1].v)
            => fiRet.v <= fiPrev[3].v
    /\ (BothValid /\ fiPrev[1] = fiArgs[1] /\ fiPrev[2].v < fiArgs[2].v)
            => fiRet.v <= fiPrev[3].v

\* two valid calls with the same lambda, the later with the larger E and the
\* smaller, still positive, result
C9_Witness ==
    /\ BothValid /\ fiPrev[2] = fiArgs[2] /\ fiPrev[1].v < fiArgs[1].v
    /\ fiRet.v < fiPrev[3].v /\ fiRet.v > 0

RowOk(row) == MakeConfig(row).ok

\* C2 as stated: a malformed row is skipped or flagged and every other row of
\* the batch is still loaded: once loading is over, the configuration of every
\* well-formed row is among the loaded ones.
C2_RowFailureIsScoped ==
    pc # "load" =>
        \A i \in 1..Len(args.csv) :
            RowOk(args.csv[i]) =>
                \E j \in 1..Len(configs) : configs[j] = MakeConfig(args.csv[i]).cfg

\* C5: in the enriched table FI_computed is flower_index of the row's E_flower
\* and lambda_max, FI_delta is |FI_reported - FI_computed| when both are
\* numbers, and FI_delta is NaN when either is missing or NaN.
C5_EnrichedColumns ==
    csvOut.written =>
        /\ Len(csvOut.doc) = Len(args.csv)
        /\ \A i \in 1..Len(csvOut.doc) :
            LET in == args.csv[i]
                out == csvOut.doc[i]
                c == flower_index(RowGet(in, "E_flower"), RowGet(in, "lambda_max"))
                r == RowGet(in, "FI_reported")
            IN  /\ out["FI_computed"] = c
                /\ (IsNum(r) /\ IsNum(c))
                      => out["FI_delta"] = Num(Abs(FSub(r.v, c.v)))
                /\ (~IsNum(r) \/ ~IsNum(c)) => out["FI_delta"] = NaN

\* an enriched table with one row whose delta is a number and one row whose
\* FI_computed is a number but whose FI_reported is missing
C5_Witness ==
    /\ csvOut.written
    /\ \E i \in 1..Len(csvOut.doc) : IsNum(csvOut.doc[i]["FI_delta"])
    /\ \E i \in 1..Len(csvOut.doc) :
          /\ IsNum(csvOut.doc[i]["FI_computed"])
          /\ ~IsNum(RowGet(args.csv[i], "FI_reported"))
          /\ IsNaN(csvOut.doc[i]["FI_delta"])

\* C6: the export holds one record per loaded configuration, in load order,
\* and each record's FI_computed is flower_index of that configuration's
\* E_flower and lambda_max.
C6_ExportRecomputesFI ==
    jsonOut.written =>
        /\ Len(jsonOut.doc) = Len(configs)
        /\ \A i \in 1..Len(configs) :
            /\ jsonOut.doc[i].id = configs[i].id
            /\ jsonOut.doc[i].metrics.FI_computed
                 = flower_index(configs[i].E_flower, configs[i].lambda_max)

\* an export of two configurations whose FI_computed differ, one of them
\* different from its FI_reported
C6_Witness ==
    /\ jsonOut.written
    /\ Len(jsonOut.doc) = 2
    /\ jsonOut.doc[1].metrics.FI_computed # jsonOut.doc[2].metrics.FI_computed
    /\ jsonOut.doc[1].metrics.FI_computed # jsonOut.doc[1].metrics.FI_reported

\* the input columns of an enriched row
InputPart(row) == [c \in DOMAIN row \ {"FI_computed", "FI_delta"} |-> row[c]]

\* C7: no call of compute_fi, rhodonea_r, to_js_config or export_js_config
\* changes a loaded configuration, and the enriched table has the rows of the
\* input, in order, with every input column unchanged and only FI_computed
\* and FI_delta added.
C7_NeverMutatedInPlace ==
    /\ [][Loaded => configs' = configs]_vars
    /\ [](csvOut.written =>
            /\ Len(csvOut.doc) = Len(args.csv)
            /\ \A i \in 1..Len(args.csv) :
                /\ InputPart(csvOut.doc[i]) = args.csv[i]
                /\ DOMAIN csvOut.doc[i]
                     = DOMAIN args.csv[i] \cup {"FI_computed", "FI_delta"})

\* both outputs written from two loaded configurations, after a method call
C7_Witness ==
    /\ pc = "done" /\ csvOut.written /\ jsonOut.written
    /\ Len(configs) = 2 /\ ret # None

\* C3 as stated: when the solver cannot meet its tolerance the integration
\* fails and no later stage runs on its output: every trajectory that reaches
\* the Projector is a successful one with exactly the requested N samples.
C3_NoTruncatedTrajectory ==
    plPc \in {"project", "subsample", "fit", "error", "done"} =>
        sol.success /\ Len(sol.y) = plIn.N

\* the d0 a step compares with: the latest positive separation before step k,
\* and the initial separation if there is none
RECURSIVE RefAt(_)
RefAt(k) ==
    IF k = 1 THEN Separation(<<One, One, One>>, <<FAdd(One, lyIn.eps), One, One>>)
    ELSE IF lyHist[k - 1].d > 0 THEN lyHist[k - 1].d
    ELSE RefAt(k - 1)

\* the sum of log(d/ref) over the first k steps, those with d > 0
RECURSIVE LogSum(_)
LogSum(k) ==
    IF k = 0 THEN 0
    ELSE IF lyHist[k].d > 0
         THEN FAdd(LogSum(k - 1), Ln(FDiv(lyHist[k].d, lyHist[k].ref)))
         ELSE LogSum(k - 1)

\* C4: n counts exactly the steps whose separation d is > 0, each compared
\* with the latest positive separation; after int(T/dt) steps the result is
\* d_sum/(n*dt) when n > 0 and 0 when n = 0; with eps = 0 every d is 0, n stays
\* 0 and the result is 0.
C4_EstimatorCountsRenormalizations ==
    /\ ly.n = Cardinality({k \in 1..Len(lyHist) : lyHist[k].d > 0})
    /\ ly.i = Len(lyHist)
    /\ \A k \in 1..Len(lyHist) : lyHist[k].ref = RefAt(k)
    /\ ly.d_sum = LogSum(Len(lyHist))
    /\ ly.pc = "done" =>
          /\ Len(lyHist) = NSteps(lyIn.T, lyIn.dt)
          /\ ly.n > 0 => ly.ret = Num(FDiv(ly.d_sum, FMul(ly.n * One, lyIn.dt)))
          /\ ly.n = 0 => ly.ret = Num(0)
    /\ lyIn.eps = 0 =>
          /\ \A k \in 1..Len(lyHist) : lyHist[k].d = 0
          /\ ly.n = 0
          /\ ly.pc = "done" => ly.ret = Num(0)

\* a finished run with a perturbation in which some steps renormalized and a
\* later one found the two trajectories merged (d = 0)
C4_Witness ==
    /\ ly.pc = "done" /\ lyIn.eps > 0
    /\ ly.n > 0 /\ ly.n < Len(lyHist)
    /\ ly.ret # Num(0)

\* C8 as stated: every evaluator uses r = a*cos((k/m)*theta + phi): for every
\* (k, m, phi, a) and angle theta, rhodonea_r of a configuration with these
\* parameters equals the fitter's rhodonea on them.  (The formula string the
\* export writes, FormulaString, reads k*m as rhodonea_r does.)
C8_OneRhodoneaModel ==
    rhoIn # <<>> => rCfg = rFit

====
